---- MODULE Spec2Model ----
(***************************************************************************)
(* Connect-Four rules engine (src/index.js): the GameBoard with its        *)
(* gravity drop, the Cell, and the GameController with its turn handling   *)
(* and win / tie detection.                                                *)
(***************************************************************************)
EXTENDS Integers, Sequences, FiniteSets, TLC

\* ------------------------------------------------------------------------
\* Program constants and bounds
\* ------------------------------------------------------------------------

rows == 6
columns == 7

\* calls are issued while at most this many tokens are on the grid
MaxTokens == 6

\* a stand-alone GameBoard is driven through its columns 0 .. MaxBoardColumn
\* and its last column
MaxBoardColumn == 0

\* the endgame starts with this many empty cells
EndgameCells == 6

\* checkWin is probed on grids that hold one token pattern laid along a
\* window of this many cells
WindowLen == 5

RowIndex == 0 .. (rows - 1)
ColIndex == 0 .. (columns - 1)

\* the column arguments callers pass: every valid index and the two
\* neighbouring out-of-range ones
ColumnInputs == (0 - 1) .. columns

\* ------------------------------------------------------------------------
\* Cell and GameBoard
\* ------------------------------------------------------------------------

\* function Cell(): let value = 0
Cell == 0

\* function GameBoard(): the nested loop that fills board with Cell()
GameBoard == [i \in RowIndex |-> [j \in ColIndex |-> Cell]]

\* a variant of addToken that stores the opponent's token
addTokenOfOpponent(b, r, c, player) == [b EXCEPT ![r][c] = 3 - player]

\* Cell.addToken(player): value = player, on the cell board[r][c]
addToken(b, r, c, player) == [b EXCEPT ![r][c] = player]

\* row[column] is undefined for a column that is no index of the row, and
\* undefined.getValue() raises a TypeError inside the filter callback
throwsTypeError(column) == column \notin ColIndex

\* the rows 0 .. rows-1 in scan order
RowScan == [i \in 1 .. rows |-> i - 1]

\* board.filter((row) => row[column].getValue() === 0).map(...): the cells of
\* the column that hold no token, in scan order, each named by its row
availableCells(b, column) ==
    SelectSeq(RowScan, LAMBDA r : b[r][column] = 0)

\* variants of lowestRow: always the top row, always the bottom row
lowestRowTop(cells) == 0
lowestRowBottom(cells) == rows - 1

\* const lowestRow = availableCells.length - 1
lowestRow(cells) == Len(cells) - 1

\* if (!availableCells.length) return;
columnFull(b, column) == Len(availableCells(b, column)) = 0

\* a variant of dropToken without the length test: a full column has its
\* top cell written again
dropTokenNoLengthTest(b, column, player) ==
    LET cells == availableCells(b, column)
    IN  IF Len(cells) = 0
        THEN addToken(b, 0, column, player)
        ELSE addToken(b, lowestRow(cells), column, player)

\* dropToken(column, player), for a column that is an index of the rows
dropToken(b, column, player) ==
    LET cells == availableCells(b, column)
    IN  IF Len(cells) = 0
        THEN b
        ELSE addToken(b, lowestRow(cells), column, player)

\* ------------------------------------------------------------------------
\* GameController
\* ------------------------------------------------------------------------

players ==
    [i \in 0 .. 1 |->
        IF i = 0 THEN [name |-> "Player One", token |-> 1]
                 ELSE [name |-> "Player Two", token |-> 2]]

\* a variant of switchPlayerTurn that always hands the turn to player two
switchToPlayerTwo(p) == players[1]

\* activePlayer = activePlayer === players[0] ? players[1] : players[0]
switchPlayerTurn(p) == IF p = players[0] THEN players[1] ELSE players[0]

\* a variant of directions without the vertical one
directionsNoVertical == << <<0, 1>>, <<1, 1>>, <<1, 0 - 1>> >>

\* const directions = [[0, 1], [1, 0], [1, 1], [1, -1]]
directions == << <<0, 1>>, <<1, 0>>, <<1, 1>>, <<1, 0 - 1>> >>

\* the inner loop of checkWin: the number of i in 0..3 whose cell
\* (r + dr*i, c + dc*i) is on the grid and holds token
windowCount(b, token, r, c, d) ==
    Cardinality({ i \in 0 .. 3 :
        LET rowIndex == r + d[1] * i
            colIndex == c + d[2] * i
        IN  /\ rowIndex >= 0
            /\ rowIndex < rows
            /\ colIndex >= 0
            /\ colIndex < columns
            /\ b[rowIndex][colIndex] = token })

\* a variant of checkWin that is content with three of the four cells
checkWinAtThree(b, token) ==
    \E r \in RowIndex, c \in ColIndex :
        /\ b[r][c] = token
        /\ \E k \in 1 .. Len(directions) :
               windowCount(b, token, r, c, directions[k]) >= 3

\* a variant of checkWin that looks at the opponent's tokens, as it would
\* after a switch of the turn
checkWinOfOpponent(b, token) ==
    \E r \in RowIndex, c \in ColIndex :
        /\ b[r][c] = 3 - token
        /\ \E k \in 1 .. Len(directions) :
               windowCount(b, 3 - token, r, c, directions[k]) >= 4

\* checkWin(board), with token = getActivePlayer().token
checkWin(b, token) ==
    \E r \in RowIndex, c \in ColIndex :
        /\ b[r][c] = token
        /\ \E k \in 1 .. Len(directions) :
               windowCount(b, token, r, c, directions[k]) >= 4

\* a variant of checkTie that compares the count of empty cells with 1
checkTieOffByOne(b) ==
    Cardinality({ rc \in RowIndex \X ColIndex : b[rc[1]][rc[2]] = 0 }) = 1

\* checkTie(board): count of the cells whose value is 0, compared with 0
checkTie(b) ==
    Cardinality({ rc \in RowIndex \X ColIndex : b[rc[1]][rc[2]] = 0 }) = 0

\* a variant of roundOutcome that looks for the tie before the win
roundOutcomeTieFirst(b, token) ==
    IF checkTie(b) THEN "Tied"
    ELSE IF checkWin(b, token) THEN "Won"
    ELSE "InProgress"

\* the if / else if of playRound after the drop
roundOutcome(b, token) ==
    IF checkWin(b, token) THEN "Won"
    ELSE IF checkTie(b) THEN "Tied"
    ELSE "InProgress"

\* ------------------------------------------------------------------------
\* State
\* ------------------------------------------------------------------------

VARIABLES
    board,          \* GameBoard's board: board[r][c] in {0, 1, 2}
    activePlayer,   \* GameController's activePlayer
    outcome,        \* what the latest completed playRound reported
    drops,          \* per column, the drops that passed the length test
    last            \* the latest call: operation, arguments, how it ended

vars == <<board, activePlayer, outcome, drops, last>>

TokenCount(b) ==
    Cardinality({ rc \in RowIndex \X ColIndex : b[rc[1]][rc[2]] # 0 })

\* the state as one record, and the record of a call
State ==
    [board |-> board, activePlayer |-> activePlayer, outcome |-> outcome,
     drops |-> drops, last |-> last]

Call(op, column, player, result) ==
    [op |-> op, column |-> column, player |-> player, result |-> result]

\* a variant of FreshState in which player two moves first
FreshStatePlayerTwo ==
    [board |-> GameBoard,
     activePlayer |-> players[1],
     outcome |-> "InProgress",
     drops |-> [c \in ColIndex |-> 0],
     last |-> Call("none", 0, 0, "none")]

\* the state after const game = GameController()
FreshState ==
    [board |-> GameBoard,
     activePlayer |-> players[0],
     outcome |-> "InProgress",
     drops |-> [c \in ColIndex |-> 0],
     last |-> Call("none", 0, 0, "none")]

Init ==
    /\ board = FreshState.board
    /\ activePlayer = FreshState.activePlayer
    /\ outcome = FreshState.outcome
    /\ drops = FreshState.drops
    /\ last = FreshState.last

\* the value dropToken(column, player) returns for an in-range column:
\* "return;" at the length test, or the end of the function body
dropTokenReturn(b, column) ==
    IF Len(availableCells(b, column)) = 0 THEN "undefined" ELSE "undefined"

\* which way dropToken went at its length test, and the drops counted so far
dropResult(b, column) ==
    IF columnFull(b, column) THEN "rejected" ELSE "placed"

countDrop(d, b, column) ==
    IF columnFull(b, column) THEN d ELSE [d EXCEPT ![column] = @ + 1]

\* playRound from the if (checkWin(...)) on: the two returns, or
\* switchPlayerTurn(); res is what the if / else if found on the grid b2
\* a variant of settleRound that switches the turn after every round
settleRoundAlwaysSwitch(st, column, token, b2, res) ==
    [board |-> b2,
     activePlayer |-> switchPlayerTurn(st.activePlayer),
     outcome |-> res,
     drops |-> countDrop(st.drops, st.board, column),
     last |-> Call("playRound", column, token, dropResult(st.board, column))]

settleRound(st, column, token, b2, res) ==
    [board |-> b2,
     activePlayer |-> IF res = "InProgress"
                      THEN switchPlayerTurn(st.activePlayer)
                      ELSE st.activePlayer,
     outcome |-> res,
     drops |-> countDrop(st.drops, st.board, column),
     last |-> Call("playRound", column, token, dropResult(st.board, column))]

\* playRound after board.dropToken(column, token) has left the grid b2
afterDrop(st, column, token, b2) ==
    settleRound(st, column, token, b2, roundOutcome(b2, token))

\* GameController.playRound(column) as a function of the state: a TypeError
\* in dropToken leaves playRound before anything is written
afterRound(st, column) ==
    LET token == st.activePlayer.token
    IN  IF throwsTypeError(column)
        THEN [st EXCEPT !.last = Call("playRound", column, token, "threw")]
        ELSE afterDrop(st, column, token,
                       dropToken(st.board, column, token))

\* GameController.playRound(column)
playRound(column) ==
    \E st \in {afterRound(State, column)} :
        /\ board' = st.board
        /\ activePlayer' = st.activePlayer
        /\ outcome' = st.outcome
        /\ drops' = st.drops
        /\ last' = st.last

\* the callers stop once more than MaxTokens tokens are on the grid
CallsOpen == TokenCount(board) <= MaxTokens

Next == CallsOpen /\ \E column \in ColumnInputs : playRound(column)

Spec == Init /\ [][Next]_vars

\* ------------------------------------------------------------------------
\* A GameBoard on its own: dropToken(column, player) called directly
\* ------------------------------------------------------------------------

BoardColumnInputs ==
    {0 - 1} \cup (0 .. MaxBoardColumn) \cup {columns - 1, columns}

\* GameBoard.dropToken(column, player)
dropTokenCall(column, player) ==
    /\ IF throwsTypeError(column)
       THEN /\ last' = Call("dropToken", column, player, "threw")
            /\ UNCHANGED <<board, drops>>
       ELSE /\ board' = dropToken(board, column, player)
            /\ drops' = countDrop(drops, board, column)
            /\ last' = Call("dropToken", column, player,
                            dropResult(board, column))
    /\ UNCHANGED <<activePlayer, outcome>>

NextBoard ==
    CallsOpen /\ \E column \in BoardColumnInputs, player \in {1, 2} :
        dropTokenCall(column, player)

SpecBoard == Init /\ [][NextBoard]_vars

\* ------------------------------------------------------------------------
\* The end of a match: the last EndgameCells cells of a drawn game
\* ------------------------------------------------------------------------

\* 42 playRound columns that fill the grid with no four aligned tokens
DrawnGame ==
    << 5, 4, 5, 0, 6, 2, 4, 5, 5, 0, 4, 1, 1, 0,
       4, 5, 6, 5, 3, 1, 1, 2, 2, 6, 2, 6, 6, 3,
       6, 2, 0, 3, 0, 3, 3, 4, 3, 1, 4, 2, 1, 0 >>

RECURSIVE afterRounds(_, _)
\* the state after the playRound calls of moves, in order (each call's
\* state is computed before the next call starts)
afterRounds(st, moves) ==
    IF moves = << >>
    THEN st
    ELSE CHOOSE end \in { afterRounds(s, Tail(moves)) :
                              s \in {afterRound(st, Head(moves))} } : TRUE

\* a fresh match played along DrawnGame until EndgameCells cells are left
InitEnd ==
    \E st \in {afterRounds(FreshState,
                   SubSeq(DrawnGame, 1, rows * columns - EndgameCells))} :
        /\ board = st.board
        /\ activePlayer = st.activePlayer
        /\ outcome = st.outcome
        /\ drops = st.drops
        /\ last = st.last

NextEnd == \E column \in ColumnInputs : playRound(column)

SpecEnd == InitEnd /\ [][NextEnd]_vars

\* ------------------------------------------------------------------------
\* checkWin on its own: grids that hold one pattern of tokens in a line
\* ------------------------------------------------------------------------

\* the cells of the grid among (r + i*dr, c + i*dc), i in mask
WindowCells(r, c, d, mask) ==
    { rc \in RowIndex \X ColIndex :
        \E i \in mask : rc[1] = r + i * d[1] /\ rc[2] = c + i * d[2] }

\* the grid the drops leave when token t lands on the cells of S and the
\* other token on every cell below one of them
PatternBoard(S, t) ==
    [r \in RowIndex |-> [c \in ColIndex |->
        IF <<r, c>> \in S THEN t
        ELSE IF \E q \in RowIndex : q < r /\ <<q, c>> \in S THEN 3 - t
        ELSE 0]]

InitWin ==
    \E r \in RowIndex, c \in ColIndex, k \in 1 .. Len(directions),
       mask \in SUBSET (0 .. (WindowLen - 1)), t \in {1, 2}, i \in 0 .. 1 :
        /\ board = PatternBoard(WindowCells(r, c, directions[k], mask), t)
        /\ activePlayer = players[i]
        /\ outcome = "InProgress"
        /\ drops = [j \in ColIndex |->
                       Cardinality({ q \in RowIndex : board[q][j] # 0 })]
        /\ last = Call("none", 0, 0, "none")

\* checkWin(board.getBoard()) as playRound calls it, its return value kept
checkWinCall ==
    /\ last' = Call("checkWin", 0, activePlayer.token,
                    IF checkWin(board, activePlayer.token)
                    THEN "true" ELSE "false")
    /\ UNCHANGED <<board, activePlayer, outcome, drops>>

NextWin == checkWinCall

SpecWin == InitWin /\ [][NextWin]_vars

\* ------------------------------------------------------------------------
\* Vocabulary of the properties, stated on the grid alone
\* ------------------------------------------------------------------------

ColumnTokens(b, c) == Cardinality({ r \in RowIndex : b[r][c] # 0 })

HasEmptyCell(b, c) == \E r \in RowIndex : b[r][c] = 0

\* the empty cell of column c with the greatest row index
LowestEmptyRow(b, c) ==
    CHOOSE r \in RowIndex :
        /\ b[r][c] = 0
        /\ \A q \in RowIndex : b[q][c] = 0 => q <= r

LineDirections == { <<0, 1>>, <<1, 0>>, <<1, 1>>, <<1, 0 - 1>> }

\* four cells in line, all on the grid, all holding t
FourAligned(b, t) ==
    \E r \in RowIndex, c \in ColIndex :
        /\ b[r][c] = t
        /\ \E d \in LineDirections :
               \A i \in 1 .. 3 :
                   /\ r + i * d[1] \in RowIndex
                   /\ c + i * d[2] \in ColIndex
                   /\ b[r + i * d[1]][c + i * d[2]] = t

GridFull(b) == \A r \in RowIndex, c \in ColIndex : b[r][c] # 0

\* the grid without the token placed last
BoardBeforeLast ==
    [board EXCEPT ![rows - drops[last.column]][last.column] = 0]

\* the step is a playRound(c) call / a dropToken(c, ...) call
IsRound(c) == last'.op = "playRound" /\ last'.column = c
IsDrop(c) == last'.op = "dropToken" /\ last'.column = c

\* ------------------------------------------------------------------------
\* Properties
\* ------------------------------------------------------------------------

\* C1: in an in-progress match a playRound on a column that holds 6 tokens
\* changes nothing: same grid, still InProgress, same active player.
C1_FullColumnRoundHasNoEffect ==
    [][\A c \in ColIndex :
          (outcome = "InProgress" /\ IsRound(c)
               /\ ColumnTokens(board, c) = rows)
          => /\ board' = board
             /\ outcome' = "InProgress"
             /\ activePlayer' = activePlayer]_vars

\* C2: in an in-progress match a playRound that places a token and leaves
\* neither four aligned tokens of the mover nor a full grid hands the turn to
\* the other of the two players.
C2_TurnAlternates ==
    [][\A c \in ColIndex :
          (outcome = "InProgress" /\ IsRound(c) /\ HasEmptyCell(board, c)
               /\ ~FourAligned(board', activePlayer.token)
               /\ ~GridFull(board'))
          => /\ activePlayer \in {players[0], players[1]}
             /\ activePlayer' \in {players[0], players[1]}
             /\ activePlayer' # activePlayer]_vars

\* the turn has gone from player one to player two and back
C2_Witness ==
    /\ last.op = "playRound"
    /\ last.result = "placed"
    /\ last.player = 2
    /\ outcome = "InProgress"
    /\ activePlayer = players[0]

\* C3: gravity. In every column the occupied cells are exactly the bottom
\* drops[c] rows, drops[c] being the accepted drops into the column: no
\* empty cell lies below an occupied one.
C3_Gravity ==
    \A c \in ColIndex : \A r \in RowIndex :
        board[r][c] # 0 <=> r >= rows - drops[c]

\* three accepted drops into column 0 of the stand-alone board
C3_Witness ==
    /\ last.op = "dropToken"
    /\ drops[0] = 3
    /\ board[rows - 3][0] # 0
    /\ board[rows - 4][0] = 0

\* C4: a dropToken on a column that holds 6 tokens is rejected and changes
\* no cell; on a column that holds 5 tokens it still places the 6th.
C4_FullColumnDropRejected ==
    [][\A c \in ColIndex :
          /\ (IsDrop(c) /\ ColumnTokens(board, c) = rows)
                 => board' = board /\ last'.result = "rejected"
          /\ (IsDrop(c) /\ ColumnTokens(board, c) = rows - 1)
                 => ColumnTokens(board', c) = rows
                        /\ last'.result = "placed"]_vars

\* six drops of player one filled column 0 and the seventh was rejected
C4_Witness ==
    /\ \A r \in RowIndex : board[r][0] = 1
    /\ drops[0] = rows
    /\ last = [op |-> "dropToken", column |-> 0, player |-> 1,
               result |-> "rejected"]

\* C5: a playRound with a column outside 0 .. 6 completes without throwing,
\* as a rejection that leaves the grid and the active player as they were.
C5_OutOfRangeRoundIsRejected ==
    [][\A c \in ColumnInputs \ ColIndex :
          IsRound(c)
          => /\ last'.result = "rejected"
             /\ board' = board
             /\ activePlayer' = activePlayer]_vars

\* C6: checkWin returns true exactly when four cells in a horizontal,
\* vertical or diagonal line, all on the grid, hold the active token; three
\* aligned tokens, also three cut off by the edge, give false.
C6_CheckWinIffFourAligned ==
    last.op = "checkWin"
    => (last.result = "true" <=> FourAligned(board, last.player))

\* checkWin has returned true for player one's diagonal (5,0) .. (2,3), and
\* nothing but that diagonal and its supports is on the grid
C6_Witness ==
    /\ last.op = "checkWin"
    /\ last.result = "true"
    /\ last.player = 1
    /\ \A i \in 0 .. 3 : board[rows - 1 - i][i] = 1
    /\ TokenCount(board) = 10

\* C7: an accepted playRound that leaves the grid full and four tokens of the
\* mover aligned reports Won, with the mover still the active player, and
\* not Tied.
C7_WinBeforeTie ==
    [][\A c \in ColIndex :
          (IsRound(c) /\ HasEmptyCell(board, c) /\ GridFull(board')
               /\ FourAligned(board', activePlayer.token))
          => outcome' = "Won" /\ activePlayer' = activePlayer]_vars

\* the 42nd token has completed a line of the mover in an in-progress match
C7_Witness ==
    /\ GridFull(board)
    /\ last.op = "playRound"
    /\ last.result = "placed"
    /\ FourAligned(board, last.player)
    /\ ~FourAligned(board, 3 - last.player)
    /\ outcome = "Won"
    /\ activePlayer.token = last.player

\* C8: a playRound that completes reports Tied exactly when its move was
\* accepted, the mover has no four aligned tokens and no cell is empty.
C8_TiedIffAcceptedFullNoWin ==
    [][\A c \in ColIndex :
          IsRound(c)
          => (outcome' = "Tied"
                 <=> /\ HasEmptyCell(board, c)
                     /\ ~FourAligned(board', activePlayer.token)
                     /\ GridFull(board'))]_vars

\* C9: a cell that holds a token keeps it: the only changes of a cell are
\* 0 -> 1 and 0 -> 2.
C9_CellsMonotone ==
    [][\A r \in RowIndex, c \in ColIndex :
          /\ board[r][c] # 0 => board'[r][c] = board[r][c]
          /\ board'[r][c] \in {0, 1, 2}]_vars

\* a token of each player stacked in column 0, the lower one kept
C9_Witness ==
    /\ last.op = "dropToken"
    /\ last.result = "placed"
    /\ board[rows - 1][0] = 1
    /\ board[rows - 2][0] = 2

\* C10: an accepted playRound writes the token of the player active before
\* the call into the lowest empty cell of the column and changes no other
\* cell.
C10_AcceptedRoundWritesOneCell ==
    [][\A c \in ColIndex :
          (IsRound(c) /\ HasEmptyCell(board, c))
          => board' = [board EXCEPT
                 ![LowestEmptyRow(board, c)][c] = activePlayer.token]]_vars

\* player two's token has landed on player one's in column 3
C10_Witness ==
    /\ last = [op |-> "playRound", column |-> 3, player |-> 2,
               result |-> "placed"]
    /\ board[rows - 1][3] = 1
    /\ board[rows - 2][3] = 2
    /\ TokenCount(board) = 2

\* C11: an accepted playRound that creates four aligned tokens of the mover
\* reports Won and does not switch the turn: the mover is the active player
\* after the call, so the win is the mover's.
C11_WinnerKeepsTurn ==
    [][\A c \in ColIndex :
          (IsRound(c) /\ HasEmptyCell(board, c)
               /\ ~FourAligned(board, activePlayer.token)
               /\ FourAligned(board', activePlayer.token))
          => /\ outcome' = "Won"
             /\ activePlayer' = activePlayer
             /\ last'.player = activePlayer.token]_vars

\* the token placed last has completed the mover's first line, on a grid
\* that still has empty cells
C11_Witness ==
    /\ last.op = "playRound"
    /\ last.result = "placed"
    /\ FourAligned(board, last.player)
    /\ ~FourAligned(BoardBeforeLast, last.player)
    /\ ~GridFull(board)
    /\ outcome = "Won"
    /\ activePlayer.token = last.player

\* C12: the value dropToken returns for a full column differs from the value
\* it returns for a column that takes the token.
C12_RejectionIsReturned ==
    [][\A c \in ColIndex :
          (IsDrop(c) /\ ColumnTokens(board, c) = rows)
          => \A c2 \in ColIndex :
                 HasEmptyCell(board, c2)
                 => dropTokenReturn(board, c) # dropTokenReturn(board, c2)]_vars

\* C13: before any call all 42 cells are empty; as long as no token is on
\* the grid the match is InProgress with player one active; the first token
\* on the grid is a token 1.
C13_FreshMatch ==
    /\ last.op = "none" => \A r \in RowIndex, c \in ColIndex : board[r][c] = 0
    /\ TokenCount(board) = 0
           => outcome = "InProgress" /\ activePlayer = players[0]
                  /\ activePlayer.token = 1
    /\ TokenCount(board) = 1
           => \E r \in RowIndex, c \in ColIndex : board[r][c] = 1

\* the first accepted playRound has put a token 1 at the bottom of column 3
C13_Witness ==
    /\ last = [op |-> "playRound", column |-> 3, player |-> 1,
               result |-> "placed"]
    /\ TokenCount(board) = 1
    /\ board[rows - 1][3] = 1

\* the columns of the scenario, and the state it claims after k of its calls:
\* player one's tokens at the bottom of column 0, player two's at the bottom
\* of the last column
ScenarioColumns == <<0, columns - 1, 0, columns - 1, 0, columns - 1, 0>>

ScenarioCell(k, r, c) ==
    IF c = 0 /\ r >= rows - ((k + 1) \div 2) THEN 1
    ELSE IF c = columns - 1 /\ r >= rows - (k \div 2) THEN 2
    ELSE 0

ScenarioBoard(k, b) ==
    \A r \in RowIndex, c \in ColIndex : b[r][c] = ScenarioCell(k, r, c)

ScenarioOutcome(k) ==
    IF k = Len(ScenarioColumns) THEN "Won" ELSE "InProgress"

ScenarioPlayer(k) ==
    IF k = Len(ScenarioColumns) THEN players[0] ELSE players[k % 2]

ScenarioState(k) ==
    /\ outcome = ScenarioOutcome(k)
    /\ activePlayer = ScenarioPlayer(k)
    /\ board[rows - 1][1] = 0
    /\ ScenarioBoard(k, board)

\* C14: from a fresh match the calls playRound(0), (6), (0), (6), (0), (6),
\* (0) leave the match InProgress after each of the first six, and the
\* seventh reports Won for player one, with token 1 in column 0 rows 5,4,3,2
\* and token 2 in column 6 rows 5,4,3.
C14_ScenarioTrace ==
    [][\A k \in 0 .. Len(ScenarioColumns) - 1 :
          (IsRound(ScenarioColumns[k + 1]) /\ ScenarioState(k))
          => /\ outcome' = ScenarioOutcome(k + 1)
             /\ ScenarioBoard(k + 1, board')
             /\ activePlayer' = ScenarioPlayer(k + 1)]_vars

\* the seventh call of the scenario has been made
C14_Witness ==
    /\ last = [op |-> "playRound", column |-> 0, player |-> 1,
               result |-> "placed"]
    /\ \A r \in RowIndex :
           /\ board[r][0] = IF r >= 2 THEN 1 ELSE 0
           /\ board[r][columns - 1] = IF r >= 3 THEN 2 ELSE 0
    /\ TokenCount(board) = Len(ScenarioColumns)
    /\ outcome = "Won"
    /\ activePlayer.name = players[0].name

\* C15: a playRound call with an in-range column made after the match is
\* Won or Tied leaves the grid and the active player as they were.
C15_PostTerminalRoundIsNoOp ==
    [][\A c \in ColIndex :
          (IsRound(c) /\ outcome \in {"Won", "Tied"})
          => board' = board /\ activePlayer' = activePlayer]_vars

\* C16: after Won for a player every playRound call with an in-range column
\* reports Won again and leaves that player active; after Tied every such
\* call reports Tied again and leaves the grid and the active player
\* unchanged; the match never returns to InProgress.
C16_TerminalOutcomesAbsorbing ==
    [][\A c \in ColIndex :
          IsRound(c)
          => /\ outcome = "Won"
                   => outcome' = "Won" /\ activePlayer' = activePlayer
             /\ outcome = "Tied"
                   => outcome' = "Tied" /\ board' = board
                          /\ activePlayer' = activePlayer
             /\ outcome # "InProgress" => outcome' # "InProgress"]_vars

\* a call made after the win has put one more token of the winner on the grid
C16_Witness ==
    /\ last.op = "playRound"
    /\ last.result = "placed"
    /\ FourAligned(BoardBeforeLast, last.player)
    /\ outcome = "Won"
    /\ activePlayer.token = last.player

\* the number of cells of the grid that hold token t
CellsOf(b, t) ==
    Cardinality({ rc \in RowIndex \X ColIndex : b[rc[1]][rc[2]] = t })

\* C17: while the match is in progress the grid holds no four aligned tokens
\* of either player.
C17_NoLineWhileInProgress ==
    outcome = "InProgress"
        => ~FourAligned(board, 1) /\ ~FourAligned(board, 2)

\* an in-progress match in which player one has three in a row at the bottom
\* of column 0 and player two has just moved
C17_Witness ==
    /\ outcome = "InProgress"
    /\ last.op = "playRound"
    /\ last.result = "placed"
    /\ last.player = 2
    /\ \A r \in (rows - 3) .. (rows - 1) : board[r][0] = 1
    /\ board[rows - 4][0] = 0

\* C18: while the match is in progress the number of token-1 cells minus the
\* number of token-2 cells is 0 when player one is active and 1 when player
\* two is active.
C18_TokenCountMatchesTurn ==
    outcome = "InProgress"
        => CellsOf(board, 1) - CellsOf(board, 2)
               = IF activePlayer = players[0] THEN 0 ELSE 1

\* C19: a match that is in progress has at least one empty cell, so no
\* in-progress state has a full grid and at most rows * columns moves are
\* accepted before Won or Tied.
C19_InProgressHasEmptyCell ==
    outcome = "InProgress"
        => /\ ~GridFull(board)
           /\ TokenCount(board) < rows * columns

\* a round has been accepted on the last but one empty cell and the match is
\* still in progress
C19_Witness ==
    /\ outcome = "InProgress"
    /\ last.op = "playRound"
    /\ last.result = "placed"
    /\ TokenCount(board) = rows * columns - 1

====
